---- MODULE Spec2Model ----
(***************************************************************************)
(* Model of the agentic trading system's portfolio ledger                  *)
(* (agentic_trading_system/portfolio_manager.py), of the main agent's      *)
(* decision combination (agentic_trading_system/main_agent.py) and of the  *)
(* handlers of one trading session (agentic_trading_system/                *)
(* trading_session.py).                                                    *)
(*                                                                         *)
(* Python floats are modelled as exact rationals <<n, d>> (d > 0, lowest   *)
(* terms); an Optional[...] field is <<>> for None and <<v>> for a value.  *)
(***************************************************************************)
EXTENDS Integers, Sequences, FiniteSets, TLC

VARIABLES initial_budget, available_cash, holdings, trade_history,
          total_pnl, total_pnl_percentage, last,
          agent_decisions, final_decision,
          session, pc, work, agent

ledger == <<initial_budget, available_cash, holdings, trade_history,
            total_pnl, total_pnl_percentage, last>>
decision_vars == <<agent_decisions, final_decision>>
session_vars == <<session, pc, work, agent>>
vars == <<ledger, agent_decisions, final_decision, session_vars>>

(***************************************************************************)
(* Bounds of the model.                                                    *)
(***************************************************************************)
MaxTrades == 3
\* the largest share count the size checks are evaluated for
MaxShares == 400
\* the most agent decisions one final decision is made from
MaxVotes == 3
\* the most trades recorded in the session that is followed turn by turn
MaxSessionTrades == 2
\* a turn begins only while the session's analysis history is shorter
MaxHistory == 2

(***************************************************************************)
(* Program constants (config.py, TradingConfig), fractions in percent.     *)
(***************************************************************************)
INITIAL_BUDGET == 100000
MAX_POSITION_SIZE_PCT == 30
MIN_POSITION_SIZE_PCT == 5
BUY_CONFIDENCE_THRESHOLD == 70
SELL_CONFIDENCE_THRESHOLD == 60
STOP_LOSS_PCT == 5
TAKE_PROFIT_PCT == 15

(***************************************************************************)
(* Exact rational arithmetic standing for float arithmetic.                *)
(***************************************************************************)
Abs(x) == IF x < 0 THEN -x ELSE x

RECURSIVE Gcd(_, _)
Gcd(a, b) == IF b = 0 THEN a ELSE Gcd(b, a % b)

Rat(n, d) ==
    LET g == Gcd(Abs(n), Abs(d))
        s == IF d < 0 THEN -1 ELSE 1
    IN  <<(s * n) \div g, (s * d) \div g>>

FromInt(i) == <<i, 1>>
\* the operands are in lowest terms; common factors are cancelled before
\* multiplying so that intermediate products stay small
RMul(a, b) ==
    LET g1 == Gcd(Abs(a[1]), b[2])
        g2 == Gcd(Abs(b[1]), a[2])
    IN  <<(a[1] \div g1) * (b[1] \div g2), (a[2] \div g2) * (b[2] \div g1)>>
RInv(a) == IF a[1] < 0 THEN <<-a[2], -a[1]>> ELSE <<a[2], a[1]>>
RDiv(a, b) == RMul(a, RInv(b))
RAdd(a, b) ==
    LET g == Gcd(a[2], b[2])
    IN  Rat(a[1] * (b[2] \div g) + b[1] * (a[2] \div g), (a[2] \div g) * b[2])
RNeg(a) == <<-a[1], a[2]>>
RSub(a, b) == RAdd(a, RNeg(b))
RLt(a, b) == a[1] * b[2] < b[1] * a[2]
RLe(a, b) == a[1] * b[2] <= b[1] * a[2]
RGt(a, b) == RLt(b, a)
RGe(a, b) == RLe(b, a)
\* int(x): truncation toward zero
Trunc(a) == IF a[1] >= 0 THEN a[1] \div a[2] ELSE -((-a[1]) \div a[2])

(***************************************************************************)
(* Optional values.                                                        *)
(***************************************************************************)
None == <<>>
Some(v) == <<v>>
\* Python truthiness of an Optional number: None and 0 are false
Truthy(o) == o # None /\ o[1] # 0
\* `o or 0`
OrZero(o) == IF Truthy(o) THEN o[1] ELSE 0

(***************************************************************************)
(* Inputs the operations are called with.                                  *)
(***************************************************************************)
Symbols == {"RELIANCE", "TCS"}
Budgets == {INITIAL_BUDGET, 10000}
\* the prices each symbol is quoted at
MarketPrices(symbol) == IF symbol = "RELIANCE" THEN {1500, 1600} ELSE {100, 200}
OrderPrices(symbol) ==
    {None, Some(0)} \cup {Some(p) : p \in MarketPrices(symbol)}
UpdatePrices(symbol) == {0, 1600} \cap ({0} \cup MarketPrices(symbol))
Quantities == {-100, 2, 10, 20, 25}
Percentages == {5, 50, 100}
Sizes ==
    {[quantity |-> None, percentage |-> None],
     [quantity |-> Some(0), percentage |-> Some(0)],
     [quantity |-> Some(10), percentage |-> Some(50)]}
    \cup {[quantity |-> Some(q), percentage |-> None] : q \in Quantities}
    \cup {[quantity |-> None, percentage |-> Some(p)] : p \in Percentages}
Order(action, symbol, size, price) ==
    [action |-> action, symbol |-> symbol, quantity |-> size.quantity,
     percentage |-> size.percentage, price |-> price]
\* orders at a quoted price, and orders without a usable price
PricedOrders(action) ==
    UNION {{Order(action, s, z, Some(p)) : z \in Sizes, p \in MarketPrices(s)} :
            s \in Symbols}
UnpricedOrders(action) ==
    {Order(action, s, [quantity |-> Some(10), percentage |-> None], p) :
        s \in Symbols, p \in {None, Some(0)}}
Orders(action) == PricedOrders(action) \cup UnpricedOrders(action)
\* orders handed to the method of the other action
Misdirected(action) ==
    {Order(action, "RELIANCE", [quantity |-> Some(10), percentage |-> None],
           Some(1500))}

\* the callers that can be inside a handler of one session at a time: a
\* process_data_interval request, the background auto-trade loop, and an
\* execute_manual_action request
Turns == {"interval", "auto_trade"}
Callers == Turns \cup {"manual"}
\* what a caller that waits holds in its local variables; began_closed
\* records whether the session was already closed when the handler began
NoWork == [price |-> 0, cash |-> 0, total_value |-> 0, final_action |-> "HOLD", position_size |-> 0, quantity |-> <<>>, began_closed |-> FALSE]

(***************************************************************************)
(* models.py: Holding                                                      *)
(***************************************************************************)
Holding(symbol, quantity, avg_price, current_price, current_value, unrealized_pnl, unrealized_pnl_percentage, percentage_of_portfolio) ==
    [symbol |-> symbol, quantity |-> quantity, avg_price |-> avg_price,
     current_price |-> current_price, current_value |-> current_value,
     unrealized_pnl |-> unrealized_pnl,
     unrealized_pnl_percentage |-> unrealized_pnl_percentage,
     percentage_of_portfolio |-> percentage_of_portfolio]

(***************************************************************************)
(* PortfolioManager.get_portfolio_state                                    *)
(***************************************************************************)
RECURSIVE SumCurrentValue(_, _)
SumCurrentValue(hold, S) ==
    IF S = {} THEN 0
    ELSE LET s == CHOOSE x \in S : TRUE
         IN  hold[s].current_value + SumCurrentValue(hold, S \ {s})

\* total_value = available_cash + sum of the holdings' stored current_value
TotalValue(cash, hold) == cash + SumCurrentValue(hold, DOMAIN hold)

\* the side effect of get_portfolio_state on self.total_pnl_percentage
PnlPercentage(cash, pnl, stored) ==
    LET total_invested == initial_budget - cash
    IN  IF total_invested > 0
        THEN RMul(RDiv(pnl, FromInt(total_invested)), FromInt(100))
        ELSE stored

\* the PortfolioState that get_portfolio_state returns
PortfolioState(cash, hold, pnl, stored) ==
    [total_budget |-> initial_budget,
     available_cash |-> cash,
     total_value |-> TotalValue(cash, hold),
     holdings |-> [s \in DOMAIN hold |->
                     [quantity |-> hold[s].quantity,
                      avg_price |-> hold[s].avg_price,
                      current_price |-> hold[s].current_price,
                      current_value |-> hold[s].current_value,
                      unrealized_pnl |-> hold[s].unrealized_pnl,
                      unrealized_pnl_percentage |-> hold[s].unrealized_pnl_percentage,
                      percentage_of_portfolio |-> hold[s].percentage_of_portfolio]],
     total_pnl |-> pnl,
     total_pnl_percentage |-> PnlPercentage(cash, pnl, stored)]

\* what get_portfolio_state() returns in the current state
get_portfolio_state ==
    PortfolioState(available_cash, holdings, total_pnl, total_pnl_percentage)

(***************************************************************************)
(* PortfolioManager._update_portfolio_percentages                          *)
(***************************************************************************)
UpdatePortfolioPercentages(cash, hold) ==
    LET tv == TotalValue(cash, hold)
    IN  IF tv > 0
        THEN [s \in DOMAIN hold |->
                [hold[s] EXCEPT !.percentage_of_portfolio =
                    RMul(Rat(hold[s].current_value, tv), FromInt(100))]]
        ELSE hold

(***************************************************************************)
(* PortfolioManager.can_buy / can_sell                                     *)
(***************************************************************************)
\* can_buy, had the upper limit itself been refused
can_buy_below_limit(symbol, quantity, price) ==
    LET total_cost == quantity * price
        total_value == TotalValue(available_cash, holdings)
    IN  IF total_cost > available_cash THEN "InsufficientCash"
        ELSE IF total_value = 0 THEN "ZeroDivisionError"
        ELSE LET position_percentage ==
                     RMul(Rat(total_cost, total_value), FromInt(100))
             IN  IF RGe(position_percentage, FromInt(MAX_POSITION_SIZE_PCT))
                 THEN "PositionTooLarge"
                 ELSE IF RLt(position_percentage, FromInt(MIN_POSITION_SIZE_PCT))
                 THEN "PositionTooSmall"
                 ELSE "OK"

can_buy(symbol, quantity, price) ==
    LET total_cost == quantity * price
        total_value == TotalValue(available_cash, holdings)
    IN  IF total_cost > available_cash THEN "InsufficientCash"
        ELSE IF total_value = 0 THEN "ZeroDivisionError"
        ELSE LET position_percentage ==
                     RMul(Rat(total_cost, total_value), FromInt(100))
             IN  IF RGt(position_percentage, FromInt(MAX_POSITION_SIZE_PCT))
                 THEN "PositionTooLarge"
                 ELSE IF RLt(position_percentage, FromInt(MIN_POSITION_SIZE_PCT))
                 THEN "PositionTooSmall"
                 ELSE "OK"

\* can_sell, had the whole holding been refused as well
can_sell_keeping_one(symbol, quantity) ==
    IF symbol \notin DOMAIN holdings THEN "NoHolding"
    ELSE IF quantity >= holdings[symbol].quantity THEN "InsufficientShares"
    ELSE "OK"

can_sell(symbol, quantity) ==
    IF symbol \notin DOMAIN holdings THEN "NoHolding"
    ELSE IF quantity > holdings[symbol].quantity THEN "InsufficientShares"
    ELSE "OK"

(***************************************************************************)
(* PortfolioManager.execute_buy                                            *)
(***************************************************************************)
\* Rejected, had the order been recorded before it was validated
RejectedButRecorded(order, reason) ==
    [ok |-> FALSE, raised |-> FALSE, reason |-> reason,
     cash |-> available_cash, hold |-> holdings, pnl |-> total_pnl,
     pnl_pct |-> total_pnl_percentage,
     history |-> Append(trade_history, order)]

\* `return False, message`: the outcome of a call on an order it rejects
Rejected(order, reason) ==
    [ok |-> FALSE, raised |-> FALSE, reason |-> reason,
     cash |-> available_cash, hold |-> holdings, pnl |-> total_pnl,
     pnl_pct |-> total_pnl_percentage, history |-> trade_history]

\* Recorded, had the record of a trade replaced the one before it
RecordedOverLatest(order) ==
    IF trade_history = <<>> THEN <<order>>
    ELSE [trade_history EXCEPT ![Len(trade_history)] = order]

\* lines 157-164 and 217-224: `self.trade_history.append({...})`
Recorded(order) == Append(trade_history, order)

\* lines 116-124: the quantity of a buy order, None when neither is given
BuyQuantity(order, price) ==
    IF Truthy(order.percentage)
    THEN Some(Trunc(RDiv(RMul(FromInt(available_cash),
                              Rat(order.percentage[1], 100)),
                         FromInt(price))))
    ELSE IF Truthy(order.quantity) THEN order.quantity
    ELSE None

\* AveragePrice, had the two prices been averaged without their quantities
PlainAveragePrice(held, avg_price, quantity, price) ==
    RDiv(RAdd(avg_price, FromInt(price)), FromInt(2))

\* AveragePrice, had holding.quantity been raised before the basis was taken
AveragePriceOfRaisedQuantity(held, avg_price, quantity, price) ==
    RDiv(RAdd(RMul(FromInt(held + quantity), avg_price),
              FromInt(quantity * price)),
         FromInt(held + quantity))

\* lines 138-140: the quantity-weighted average price after a further buy
AveragePrice(held, avg_price, quantity, price) ==
    RDiv(RAdd(RMul(FromInt(held), avg_price), FromInt(quantity * price)),
         FromInt(held + quantity))

\* NewHolding, had avg_price been given the position's value
NewHoldingAtValue(symbol, quantity, price) ==
    Holding(symbol, quantity, FromInt(quantity * price), price,
            quantity * price, FromInt(0), FromInt(0), FromInt(0))

\* lines 146-155: the holding a first buy of a symbol creates
NewHolding(symbol, quantity, price) ==
    Holding(symbol, quantity, FromInt(price), price, quantity * price,
            FromInt(0), FromInt(0), FromInt(0))

\* lines 135-155: the holdings after quantity shares are bought at price
\* (defined when the symbol is new or the resulting quantity is not 0)
BoughtHoldings(hold, symbol, quantity, price) ==
    IF symbol \in DOMAIN hold
    THEN LET holding == hold[symbol]
             total_quantity == holding.quantity + quantity
         IN  [hold EXCEPT ![symbol] =
                [holding EXCEPT
                    !.avg_price = AveragePrice(holding.quantity, holding.avg_price,
                                               quantity, price),
                    !.quantity = total_quantity,
                    !.current_price = price,
                    !.current_value = total_quantity * price]]
    ELSE [s \in DOMAIN hold \cup {symbol} |->
            IF s = symbol THEN NewHolding(symbol, quantity, price) ELSE hold[s]]

execute_buy(order) ==
    LET symbol == order.symbol
        price == OrZero(order.price)
        q == BuyQuantity(order, price)
    IN  IF order.action # "BUY" THEN Rejected(order, "InvalidAction")
        ELSE IF price <= 0 THEN Rejected(order, "InvalidPrice")
        ELSE IF q = None THEN Rejected(order, "MissingQuantity")
        ELSE LET quantity == q[1]
                 verdict == can_buy(symbol, quantity, price)
                 \* can_buy reads get_portfolio_state once the cash check passed
                 pct1 == IF verdict = "InsufficientCash"
                         THEN total_pnl_percentage
                         ELSE PnlPercentage(available_cash, total_pnl,
                                            total_pnl_percentage)
                 total_cost == quantity * price
                 cash == available_cash - total_cost
             IN  IF verdict = "ZeroDivisionError"
                 THEN [Rejected(order, verdict) EXCEPT !.raised = TRUE, !.pnl_pct = pct1]
                 ELSE IF verdict # "OK"
                 THEN [Rejected(order, verdict) EXCEPT !.pnl_pct = pct1]
                 ELSE IF symbol \in DOMAIN holdings
                         /\ holdings[symbol].quantity + quantity = 0
                 THEN \* line 140 divides by zero after the cash was debited
                      [Rejected(order, "ZeroDivisionError") EXCEPT
                          !.raised = TRUE, !.pnl_pct = pct1, !.cash = cash]
                 ELSE [ok |-> TRUE, raised |-> FALSE, reason |-> "OK",
                       cash |-> cash,
                       hold |-> UpdatePortfolioPercentages(cash,
                                   BoughtHoldings(holdings, symbol, quantity, price)),
                       pnl |-> total_pnl,
                       pnl_pct |-> PnlPercentage(cash, total_pnl, pct1),
                       history |-> Recorded(order)]

(***************************************************************************)
(* PortfolioManager.execute_sell                                           *)
(***************************************************************************)
\* UnrealizedPnl, had the quantity been left out of the cost basis
UnrealizedPnlPerShare(quantity, avg_price, current_value) ==
    RSub(FromInt(current_value), avg_price)

\* lines 63 and 213: current_value - quantity * avg_price
UnrealizedPnl(quantity, avg_price, current_value) ==
    RSub(FromInt(current_value), RMul(FromInt(quantity), avg_price))

\* lines 183-189: the quantity of a sell order, None when neither is given
SellQuantity(order, holding) ==
    IF Truthy(order.percentage)
    THEN Some(Trunc(RMul(FromInt(holding.quantity),
                         Rat(order.percentage[1], 100))))
    ELSE IF Truthy(order.quantity) THEN order.quantity
    ELSE None

\* SoldHoldings, had the emptied position been kept
SoldHoldingsKeepingEmpty(hold, symbol, quantity, price) ==
    [hold EXCEPT ![symbol] =
        [hold[symbol] EXCEPT
            !.quantity = @ - quantity,
            !.current_value = (hold[symbol].quantity - quantity) * price]]

\* lines 205-215: the holdings after quantity shares are sold at price
SoldHoldings(hold, symbol, quantity, price) ==
    LET left == hold[symbol].quantity - quantity
    IN  IF left = 0
        THEN [s \in DOMAIN hold \ {symbol} |-> hold[s]]
        ELSE LET current_value == left * price
                 basis == RMul(FromInt(left), hold[symbol].avg_price)
                 unrealized_pnl ==
                     UnrealizedPnl(left, hold[symbol].avg_price, current_value)
             IN  [hold EXCEPT ![symbol] =
                    [hold[symbol] EXCEPT
                        !.quantity = left,
                        !.current_value = current_value,
                        !.unrealized_pnl = unrealized_pnl,
                        !.unrealized_pnl_percentage =
                            IF RGt(basis, FromInt(0))
                            THEN RMul(RDiv(unrealized_pnl, basis), FromInt(100))
                            ELSE @]]

execute_sell(order) ==
    LET symbol == order.symbol
        price == OrZero(order.price)
    IN  IF order.action # "SELL" THEN Rejected(order, "InvalidAction")
        ELSE IF price <= 0 THEN Rejected(order, "InvalidPrice")
        ELSE IF symbol \notin DOMAIN holdings THEN Rejected(order, "NoHolding")
        ELSE LET holding == holdings[symbol]
                 q == SellQuantity(order, holding)
             IN  IF q = None THEN Rejected(order, "MissingQuantity")
                 ELSE IF can_sell(symbol, q[1]) # "OK"
                 THEN Rejected(order, can_sell(symbol, q[1]))
                 ELSE LET quantity == q[1]
                          total_proceeds == quantity * price
                          cash == available_cash + total_proceeds
                          cost_basis == RMul(FromInt(quantity), holding.avg_price)
                          realized_pnl == RSub(FromInt(total_proceeds), cost_basis)
                          pnl == RAdd(total_pnl, realized_pnl)
                      IN  [ok |-> TRUE, raised |-> FALSE, reason |-> "OK",
                           cash |-> cash,
                           hold |-> UpdatePortfolioPercentages(cash,
                                       SoldHoldings(holdings, symbol, quantity, price)),
                           pnl |-> pnl,
                           pnl_pct |-> PnlPercentage(cash, pnl, total_pnl_percentage),
                           history |-> Recorded(order)]

(***************************************************************************)
(* PortfolioManager.update_holding_price                                   *)
(***************************************************************************)
update_holding_price(symbol, current_price) ==
    IF symbol \notin DOMAIN holdings
    THEN [ok |-> TRUE, raised |-> FALSE, reason |-> "NotHeld",
          cash |-> available_cash, hold |-> holdings, pnl |-> total_pnl,
          pnl_pct |-> total_pnl_percentage, history |-> trade_history]
    ELSE LET holding == holdings[symbol]
             current_value == holding.quantity * current_price
             basis == RMul(FromInt(holding.quantity), holding.avg_price)
             unrealized_pnl ==
                 UnrealizedPnl(holding.quantity, holding.avg_price, current_value)
             priced == [holdings EXCEPT ![symbol] =
                          [holding EXCEPT
                              !.current_price = current_price,
                              !.current_value = current_value,
                              !.unrealized_pnl = unrealized_pnl,
                              !.unrealized_pnl_percentage =
                                  IF RGt(basis, FromInt(0))
                                  THEN RMul(RDiv(unrealized_pnl, basis), FromInt(100))
                                  ELSE @]]
             total_value == TotalValue(available_cash, priced)
         IN  [ok |-> TRUE, raised |-> FALSE, reason |-> "OK",
              cash |-> available_cash,
              hold |-> IF total_value > 0
                       THEN [priced EXCEPT ![symbol].percentage_of_portfolio =
                               RMul(Rat(current_value, total_value), FromInt(100))]
                       ELSE priced,
              pnl |-> total_pnl,
              pnl_pct |-> PnlPercentage(available_cash, total_pnl,
                                        total_pnl_percentage),
              history |-> trade_history]

(***************************************************************************)
(* The ledger as a state machine: one action per operation.                *)
(***************************************************************************)
Apply(op, out) ==
    /\ available_cash' = out.cash
    /\ holdings' = out.hold
    /\ total_pnl' = out.pnl
    /\ total_pnl_percentage' = out.pnl_pct
    /\ trade_history' = out.history
    /\ last' = [op |-> op, ok |-> out.ok, raised |-> out.raised,
                reason |-> out.reason]
    /\ UNCHANGED <<initial_budget, agent_decisions, final_decision>>

\* PortfolioManager.__init__: `initial_budget or TradingConfig.INITIAL_BUDGET`
Init ==
    /\ initial_budget \in Budgets
    /\ available_cash = initial_budget
    /\ holdings = <<>>
    /\ trade_history = <<>>
    /\ total_pnl = FromInt(0)
    /\ total_pnl_percentage = FromInt(0)
    /\ last = [op |-> "__init__", ok |-> TRUE, raised |-> FALSE, reason |-> "OK"]
    /\ agent_decisions = <<>>
    /\ final_decision = None
    /\ session = [session_active |-> TRUE, last_decision |-> None,
                  analysis_history |-> <<>>, decision_history |-> <<>>,
                  trade_history |-> <<>>]
    /\ agent = [analysis_history |-> <<>>, decision_history |-> <<>>]
    /\ pc = [c \in Callers |-> "idle"]
    /\ work = [c \in Callers |-> NoWork]

ExecuteBuy ==
    /\ Len(trade_history) < MaxTrades
    /\ \E order \in Orders("BUY") \cup Misdirected("SELL") :
          Apply("execute_buy", execute_buy(order))
    /\ UNCHANGED session_vars

ExecuteSell ==
    /\ Len(trade_history) < MaxTrades
    /\ \E order \in Orders("SELL") \cup Misdirected("BUY") :
          Apply("execute_sell", execute_sell(order))
    /\ UNCHANGED session_vars

UpdateHoldingPrice ==
    /\ \E symbol \in Symbols : \E price \in UpdatePrices(symbol) :
          Apply("update_holding_price", update_holding_price(symbol, price))
    /\ UNCHANGED session_vars

GetPortfolioState ==
    /\ Apply("get_portfolio_state",
             [ok |-> TRUE, raised |-> FALSE, reason |-> "OK",
              cash |-> available_cash, hold |-> holdings, pnl |-> total_pnl,
              pnl_pct |-> get_portfolio_state.total_pnl_percentage,
              history |-> trade_history])
    /\ UNCHANGED session_vars

Next == ExecuteBuy \/ ExecuteSell \/ UpdateHoldingPrice \/ GetPortfolioState

Spec == Init /\ [][Next]_vars

(***************************************************************************)
(* MainAgent._make_final_decision and its helpers (main_agent.py).         *)
(***************************************************************************)
\* models.py: AgentDecision, the fields the combination reads
AgentDecision(decision, confidence, risk_assessment, position_size) ==
    [decision |-> decision, confidence |-> confidence,
     risk_assessment |-> risk_assessment, position_size |-> position_size]

DecisionTypes == {"STRONG_BUY", "BUY", "HOLD", "SELL", "STRONG_SELL"}
Confidences == {0, 60, 100}
RiskSizes ==
    {<<None, None>>, <<None, Some(0)>>, <<Some("Very Low"), Some(2)>>,
     <<Some("Very High"), Some(40)>>}
\* analysis_data.current_price of the interval decided on
DecisionPrices == {1500}
Votes ==
    {AgentDecision(d, c, rs[1], rs[2]) :
        d \in DecisionTypes, c \in Confidences, rs \in RiskSizes}

RECURSIVE SumOver(_, _, _)
\* sum of f(ds[i]) over the list, f given as a function on Votes
SumOver(ds, f, i) ==
    IF i > Len(ds) THEN FromInt(0) ELSE RAdd(f[ds[i]], SumOver(ds, f, i + 1))

Count(ds, kinds) == Cardinality({i \in 1..Len(ds) : ds[i].decision \in kinds})

\* lines 145-156: a buy counts 1.2 times, a sell 1.1 times its confidence
Weighted(d) ==
    IF d.decision \in {"STRONG_BUY", "BUY"} THEN Rat(d.confidence * 12, 10)
    ELSE IF d.decision \in {"STRONG_SELL", "SELL"} THEN Rat(d.confidence * 11, 10)
    ELSE FromInt(d.confidence)

\* line 159
weighted_avg_confidence(ds) ==
    IF Len(ds) = 0 THEN FromInt(0)
    ELSE RDiv(SumOver(ds, [d \in Votes |-> Weighted(d)], 1), FromInt(Len(ds)))

\* line 158
avg_confidence(ds) ==
    IF Len(ds) = 0 THEN FromInt(0)
    ELSE RDiv(SumOver(ds, [d \in Votes |-> FromInt(d.confidence)], 1),
              FromInt(Len(ds)))

\* FinalAction, had a bucket won with as many votes as another one
FinalActionOnTies(ds, confidence) ==
    LET buy_votes == Count(ds, {"STRONG_BUY", "BUY"})
        sell_votes == Count(ds, {"STRONG_SELL", "SELL"})
        hold_votes == Len(ds) - buy_votes - sell_votes
    IN  IF buy_votes >= sell_votes /\ buy_votes >= hold_votes
        THEN IF RGe(confidence, FromInt(BUY_CONFIDENCE_THRESHOLD))
             THEN "BUY" ELSE "HOLD"
        ELSE IF sell_votes >= buy_votes /\ sell_votes >= hold_votes
        THEN IF RGe(confidence, FromInt(SELL_CONFIDENCE_THRESHOLD))
             THEN "SELL" ELSE "HOLD"
        ELSE "HOLD"

\* lines 161-173
FinalAction(ds, confidence) ==
    LET buy_votes == Count(ds, {"STRONG_BUY", "BUY"})
        sell_votes == Count(ds, {"STRONG_SELL", "SELL"})
        hold_votes == Len(ds) - buy_votes - sell_votes
    IN  IF buy_votes > sell_votes /\ buy_votes > hold_votes
        THEN IF RGe(confidence, FromInt(BUY_CONFIDENCE_THRESHOLD))
             THEN "BUY" ELSE "HOLD"
        ELSE IF sell_votes > buy_votes /\ sell_votes > hold_votes
        THEN IF RGe(confidence, FromInt(SELL_CONFIDENCE_THRESHOLD))
             THEN "SELL" ELSE "HOLD"
        ELSE "HOLD"

RMax(a, b) == IF RGe(a, b) THEN a ELSE b
RMin(a, b) == IF RLe(a, b) THEN a ELSE b

\* MainAgent._calculate_position_size (the portfolio has a total value # 0)
calculate_position_size(ds, cash, total_value) ==
    IF Len(ds) = 0 THEN FromInt(10)
    ELSE LET avg == RDiv(SumOver(ds, [d \in Votes |->
                                        FromInt(IF Truthy(d.position_size)
                                                THEN d.position_size[1] ELSE 10)],
                                 1),
                         FromInt(Len(ds)))
             cash_percentage == RMul(Rat(cash, total_value), FromInt(100))
             adjusted == IF RLt(cash_percentage, FromInt(20))
                         THEN RMul(avg, Rat(5, 10))
                         ELSE IF RGt(cash_percentage, FromInt(80))
                         THEN RMul(avg, Rat(12, 10))
                         ELSE avg
         IN  RMin(RMax(adjusted, FromInt(MIN_POSITION_SIZE_PCT)),
                  FromInt(MAX_POSITION_SIZE_PCT))

\* MainAgent._determine_risk_level
RiskScore(d) ==
    IF d.risk_assessment = None THEN 3
    ELSE CASE d.risk_assessment[1] = "Very Low" -> 1
           [] d.risk_assessment[1] = "Low" -> 2
           [] d.risk_assessment[1] = "Medium" -> 3
           [] d.risk_assessment[1] = "High" -> 4
           [] d.risk_assessment[1] = "Very High" -> 5

determine_risk_level(ds) ==
    IF Len(ds) = 0 THEN "Medium"
    ELSE LET avg_risk_score ==
                 RDiv(SumOver(ds, [d \in Votes |-> FromInt(RiskScore(d))], 1),
                      FromInt(Len(ds)))
         IN  IF RLe(avg_risk_score, Rat(15, 10)) THEN "Very Low"
             ELSE IF RLe(avg_risk_score, Rat(25, 10)) THEN "Low"
             ELSE IF RLe(avg_risk_score, Rat(35, 10)) THEN "Medium"
             ELSE IF RLe(avg_risk_score, Rat(45, 10)) THEN "High"
             ELSE "Very High"

\* MainAgent._calculate_risk_levels: <<stop_loss, take_profit>>
calculate_risk_levels(current_price, risk_level) ==
    LET m == CASE risk_level = "Very Low" -> <<Rat(50, 100), Rat(150, 100)>>
               [] risk_level = "Low" -> <<Rat(75, 100), Rat(125, 100)>>
               [] risk_level = "Medium" -> <<FromInt(1), FromInt(1)>>
               [] risk_level = "High" -> <<Rat(125, 100), Rat(75, 100)>>
               [] OTHER -> <<Rat(150, 100), Rat(50, 100)>>
        stop_loss_pct == RMul(Rat(STOP_LOSS_PCT, 100), m[1])
        take_profit_pct == RMul(Rat(TAKE_PROFIT_PCT, 100), m[2])
    IN  <<Some(RMul(FromInt(current_price), RSub(FromInt(1), stop_loss_pct))),
          Some(RMul(FromInt(current_price), RAdd(FromInt(1), take_profit_pct)))>>

\* MainAgent._determine_next_interval
determine_next_interval(final_action, confidence) ==
    IF final_action = "BUY" /\ RGt(confidence, FromInt(80)) THEN "1hour"
    ELSE IF final_action = "SELL" /\ RGt(confidence, FromInt(80)) THEN "1hour"
    ELSE IF RGt(confidence, FromInt(70)) THEN "5min"
    ELSE IF RGt(confidence, FromInt(50)) THEN "15min"
    ELSE "1hour"

\* the unweighted mean in place of the weighted one
DecidingOnPlainAverage(ds) == avg_confidence(ds)

\* the confidence the final action is decided on and reported with
DecidingConfidence(ds) == weighted_avg_confidence(ds)

\* MainAgent._make_final_decision: the MainAgentDecision it returns
make_final_decision(current_price, ds, cash, total_value) ==
    LET confidence == DecidingConfidence(ds)
        final_action == FinalAction(ds, confidence)
        risk_level == determine_risk_level(ds)
        levels == calculate_risk_levels(current_price, risk_level)
    IN  [final_action |-> final_action,
         confidence |-> confidence,
         agent_decisions |-> ds,
         risk_assessment |-> risk_level,
         position_size |-> calculate_position_size(ds, cash, total_value),
         stop_loss |-> levels[1],
         take_profit |-> levels[2],
         next_interval |-> determine_next_interval(final_action, confidence)]

(***************************************************************************)
(* The combination as a state machine: a list of agent decisions is drawn  *)
(* vote by vote, then _make_final_decision is applied to it and to the     *)
(* ledger's portfolio state, given as a mapping as its signature declares. *)
(***************************************************************************)
GatherDecision ==
    /\ final_decision = None
    /\ Len(agent_decisions) < MaxVotes
    /\ \E d \in Votes : agent_decisions' = Append(agent_decisions, d)
    /\ UNCHANGED <<ledger, final_decision, session_vars>>

MakeFinalDecision ==
    /\ final_decision = None
    /\ \E current_price \in DecisionPrices :
         final_decision' =
            Some(make_final_decision(current_price, agent_decisions,
                                     available_cash,
                                     TotalValue(available_cash, holdings)))
    /\ UNCHANGED <<ledger, agent_decisions, session_vars>>

NextDecision == GatherDecision \/ MakeFinalDecision

SpecDecision == Init /\ [][NextDecision]_vars

(***************************************************************************)
(* One trading session (trading_session.py, main_agent.py): the handlers   *)
(* are coroutines of one event loop and hold no lock; a handler runs       *)
(* without interruption from one await to the next, and at an await any    *)
(* other handler of the session may run.                                   *)
(***************************************************************************)
SessionSymbol == "RELIANCE"
\* backend_client.get_analysis: None on failure, else the current price
Analyses == {None} \cup {Some(p) : p \in MarketPrices(SessionSymbol)}
\* the decisions left of the five agents' responses (failed agents dropped)
AgentOutcomes ==
    {<<>>, <<AgentDecision("BUY", 100, None, None)>>,
     <<AgentDecision("SELL", 60, None, None)>>}
\* api.py ManualActionRequest
ManualRequests ==
    {[action |-> a, quantity |-> q, percentage |-> p] :
        a \in {"BUY", "SELL"}, q \in {None, Some(5)}, p \in {None, Some(50)}}

\* MainAgent._create_error_decision
create_error_decision ==
    [final_action |-> "HOLD", confidence |-> FromInt(0), agent_decisions |-> <<>>,
     risk_assessment |-> "High", position_size |-> FromInt(0),
     stop_loss |-> None, take_profit |-> None, next_interval |-> "1hour"]

\* process_market_data, lines 111-122: the decision it returns, None when it
\* raises.  _make_final_decision is handed the PortfolioState object, on
\* which _calculate_position_size (lines 213-214) calls .get as soon as the
\* list of decisions is not empty: AttributeError.
DecisionOfTurn(w, ds) ==
    IF ds # <<>> THEN None
    ELSE Some(make_final_decision(w.price, ds, w.cash, w.total_value))

\* portfolio_manager.update_holding_price, then get_portfolio_state
\* (process_market_data, lines 95-97)
\* the ledger after the call that left it as `out` is followed by
\* get_portfolio_state (directly or through agent.get_portfolio_summary):
\* total_pnl_percentage is refreshed, and that call returns normally
Summarised(out) ==
    [out EXCEPT !.pnl_pct = PnlPercentage(out.cash, out.pnl, out.pnl_pct),
                !.ok = TRUE, !.raised = FALSE, !.reason = "OK"]

PricedAndSnapshot(price) == Summarised(update_holding_price(SessionSymbol, price))

Unmoved ==
    [ok |-> TRUE, raised |-> FALSE, reason |-> "OK",
     cash |-> available_cash, hold |-> holdings, pnl |-> total_pnl,
     pnl_pct |-> total_pnl_percentage, history |-> trade_history]

\* _execute_buy / _execute_sell: the TradeRequest built from a decision
OrderOfDecision(w, price) ==
    Order(w.final_action, SessionSymbol,
          [quantity |-> None, percentage |-> Some(w.position_size)], Some(price))

\* the dict _execute_buy / _execute_sell return for an order the ledger
\* accepted: "quantity" is trade_request.quantity
ExecutionResult(order) ==
    [action |-> order.action, success |-> TRUE, quantity |-> order.quantity,
     price |-> order.price[1]]

\* the ledger of a turn whose analysis failed, had the holding been
\* repriced before the analysis was looked at
AnalysisFailedAfterPricing == Summarised(update_holding_price(SessionSymbol, 0))

\* process_market_data returns the error decision at line 92, before
\* update_holding_price; process_data_interval then reads the summary
AnalysisFailed == Summarised(Unmoved)

\* trading_session.py, lines 98-104: what process_data_interval stores of
\* the decision and of the agent (whose histories are hist)
Stored(decision, hist) ==
    [session EXCEPT
        !.last_decision = Some(decision),
        !.analysis_history = session.analysis_history \o hist.analysis_history,
        !.decision_history = session.decision_history \o hist.decision_history]

\* trading_session.py, line 111: the test that lets a decision execute
Executes(decision) ==
    RGe(decision.confidence, FromInt(BUY_CONFIDENCE_THRESHOLD))

\* process_data_interval up to the await of the agents: the analysis
\* arrives, the holding is repriced and the portfolio snapshot is taken
BeginTurn ==
    \E c \in Turns : \E analysis \in Analyses :
        /\ pc[c] = "idle"
        /\ session.session_active
        \* get_next_data_interval needs a previous decision
        /\ c = "auto_trade" => session.last_decision # None
        /\ Len(session.analysis_history) < MaxHistory
        /\ IF analysis = None
           THEN \* the error decision (confidence 0) is stored, nothing executes
                /\ session' = Stored(create_error_decision, agent)
                /\ Apply("create_error_decision", AnalysisFailed)
                /\ UNCHANGED <<pc, work, agent>>
           ELSE /\ Apply("get_portfolio_state", PricedAndSnapshot(analysis[1]))
                /\ pc' = [pc EXCEPT ![c] = "agents"]
                /\ work' = [work EXCEPT ![c] =
                              [NoWork EXCEPT
                                 !.price = analysis[1],
                                 !.cash = available_cash,
                                 !.total_value =
                                    TotalValue(available_cash,
                                               PricedAndSnapshot(analysis[1]).hold)]]
                /\ UNCHANGED <<session, agent>>

\* the agents have answered: process_market_data decides, and
\* process_data_interval stores the decision and, when its confidence
\* reaches the threshold, starts executing it
AgentsReturn ==
    \E c \in Turns : \E ds \in AgentOutcomes :
        /\ pc[c] = "agents"
        /\ LET decision == DecisionOfTurn(work[c], ds)
           IN  IF decision = None
               THEN \* the exception is caught at trading_session.py:146
                    /\ pc' = [pc EXCEPT ![c] = "idle"]
                    /\ work' = [work EXCEPT ![c] = NoWork]
                    /\ UNCHANGED <<ledger, decision_vars, session, agent>>
               ELSE \* main_agent.py, lines 124-126
                    /\ agent' = [analysis_history |->
                                    Append(agent.analysis_history,
                                           Len(agent.analysis_history) + 1),
                                 decision_history |-> agent.decision_history \o ds]
                    /\ session' = Stored(decision[1], agent')
                    /\ Apply("get_portfolio_state", Summarised(Unmoved))
                    /\ IF /\ Executes(decision[1])
                          /\ decision[1].final_action \in {"BUY", "SELL"}
                       THEN /\ pc' = [pc EXCEPT ![c] = "pricing"]
                            /\ work' = [work EXCEPT ![c] =
                                  [NoWork EXCEPT
                                     !.final_action = decision[1].final_action,
                                     !.position_size =
                                        Trunc(decision[1].position_size)]]
                       ELSE /\ pc' = [pc EXCEPT ![c] = "idle"]
                            /\ work' = [work EXCEPT ![c] = NoWork]

\* execute_manual_action up to the await of the price.  Without a previous
\* decision MainAgentDecision(risk_assessment=None) fails validation and
\* the handler returns an error.  session_active is not looked at.
BeginManual ==
    \E req \in ManualRequests :
        /\ pc["manual"] = "idle"
        /\ session.last_decision # None
        /\ pc' = [pc EXCEPT !["manual"] = "pricing"]
        /\ work' = [work EXCEPT !["manual"] =
                      [NoWork EXCEPT
                         !.final_action = req.action,
                         !.quantity = req.quantity,
                         !.began_closed = ~session.session_active,
                         !.position_size = IF Truthy(req.percentage)
                                           THEN req.percentage[1] ELSE 10]]
        /\ UNCHANGED <<ledger, decision_vars, session, agent>>

\* _execute_buy / _execute_sell after the await of the price: the order is
\* built with percentage = position_size and executed on the ledger
PriceArrives ==
    \E c \in Callers : \E analysis \in Analyses :
        /\ pc[c] = "pricing"
        /\ Len(trade_history) < MaxSessionTrades
        /\ LET order == OrderOfDecision(work[c], OrZero(analysis))
               out == IF analysis = None THEN Unmoved
                      ELSE IF work[c].final_action = "BUY"
                      THEN execute_buy(order)
                      ELSE execute_sell(order)
           IN  \* execute_manual_action goes on to get_portfolio_summary
               /\ IF c = "manual"
                  THEN Apply("get_portfolio_state", Summarised(out))
                  ELSE Apply(IF work[c].final_action = "BUY"
                             THEN "execute_buy" ELSE "execute_sell", out)
               \* `if execution_result.get("success")`
               /\ session' =
                     IF analysis # None /\ out.ok
                     THEN [session EXCEPT
                             !.trade_history = Append(@, ExecutionResult(order))]
                     ELSE session
        /\ pc' = [pc EXCEPT ![c] = "idle"]
        /\ work' = [work EXCEPT ![c] = NoWork]
        /\ UNCHANGED agent

\* TradingSessionManager.close_session
CloseSession ==
    /\ session.session_active
    /\ session' = [session EXCEPT !.session_active = FALSE]
    /\ Apply("get_portfolio_state", Summarised(Unmoved))
    /\ UNCHANGED <<pc, work, agent>>

NextSession ==
    BeginTurn \/ AgentsReturn \/ BeginManual \/ PriceArrives \/ CloseSession

\* create_session without a budget: TradingConfig.INITIAL_BUDGET
InitSession == Init /\ initial_budget = INITIAL_BUDGET

SpecSession == InitSession /\ [][NextSession]_vars

(***************************************************************************)
(* Properties of the ledger.                                               *)
(***************************************************************************)
Latest(seq) == seq[Len(seq)]

\* the step just taken was a call of op that returned ok
Returned(op, ok) == last.op = op /\ last.ok = ok

\* sum over open positions of quantity * avg_price
RECURSIVE SumCostBasis(_, _)
SumCostBasis(hold, S) ==
    IF S = {} THEN FromInt(0)
    ELSE LET s == CHOOSE x \in S : TRUE
         IN  RAdd(RMul(FromInt(hold[s].quantity), hold[s].avg_price),
                  SumCostBasis(hold, S \ {s}))

\* C1 (Non-negativity): in every reachable state available_cash >= 0 and
\* every open position's quantity >= 0.
C1_NonNegativity ==
    /\ available_cash >= 0
    /\ \A s \in DOMAIN holdings : holdings[s].quantity >= 0

\* C2 (Atomicity): a call of execute_buy or execute_sell that returns failure
\* leaves available_cash, every position's fields, total_pnl and the trade
\* history as they were, and get_portfolio_state() returns the same before
\* and after it.
C2_Atomicity ==
    [][(last'.op \in {"execute_buy", "execute_sell"} /\ ~last'.ok)
        => /\ available_cash' = available_cash
           /\ holdings' = holdings
           /\ total_pnl' = total_pnl
           /\ trade_history' = trade_history
           /\ PortfolioState(available_cash', holdings', total_pnl',
                             total_pnl_percentage')
                = PortfolioState(available_cash, holdings, total_pnl,
                                 total_pnl_percentage)]_vars

\* a buy was rejected for its size on a ledger that already holds a position
C2_Witness ==
    /\ Returned("execute_buy", FALSE)
    /\ last.reason = "PositionTooLarge"
    /\ DOMAIN holdings # {}

\* C3 (Conservation): available_cash plus the sum over open positions of
\* quantity * avg_price equals initial_budget + total_pnl.
C3_Conservation ==
    RAdd(FromInt(available_cash), SumCostBasis(holdings, DOMAIN holdings))
        = RAdd(FromInt(initial_budget), total_pnl)

\* a sell has booked a gain or loss while a position averaged over two buys
\* at different prices is still open
C3_Witness ==
    /\ total_pnl # FromInt(0)
    /\ \E s \in DOMAIN holdings : holdings[s].avg_price[2] # 1

\* C4 (Position bound on the resulting position): right after every
\* successful buy the bought symbol's position value is at most
\* MAX_POSITION_SIZE (30%) of total value.
C4_ResultingPositionBounded ==
    Returned("execute_buy", TRUE) =>
        LET s == Latest(trade_history).symbol
        IN  holdings[s].current_value * 100
                <= MAX_POSITION_SIZE_PCT * TotalValue(available_cash, holdings)

\* the step being taken is a successful call of op
Succeeds(op) == last'.op = op /\ last'.ok

QuantityOnly(q) == [quantity |-> Some(q), percentage |-> None]
PercentageOnly(pct) == [quantity |-> None, percentage |-> Some(pct)]

\* the shares a successful buy or sell step trades, from the cash it moves
Traded(price) == Abs(available_cash' - available_cash) \div price
SignedTraded(price) ==
    IF Abs(available_cash' - available_cash) = available_cash' - available_cash
    THEN Traded(price) ELSE -Traded(price)

\* C5 (Cost basis): a successful buy of q shares at price p leaves
\* quantity = oldQty + q and avg_price = (oldQty*oldAvg + q*p)/(oldQty + q) on
\* a held symbol and avg_price = p on a new one; 10 at 100 then 10 at 200
\* gives avg_price 150 and quantity 20.
C5_TenThenTen ==
    <<Order("BUY", "TCS", QuantityOnly(10), Some(100)),
      Order("BUY", "TCS", QuantityOnly(10), Some(200))>>

C5_CostBasis ==
    /\ [][Succeeds("execute_buy") =>
            LET o == Latest(trade_history')
                s == o.symbol
                p == o.price[1]
                q == -SignedTraded(p)
            IN  /\ available_cash' = available_cash - q * p
                /\ IF s \in DOMAIN holdings
                   THEN /\ holdings'[s].quantity = holdings[s].quantity + q
                        /\ holdings'[s].avg_price =
                             RDiv(RAdd(RMul(FromInt(holdings[s].quantity),
                                            holdings[s].avg_price),
                                       FromInt(q * p)),
                                  FromInt(holdings[s].quantity + q))
                   ELSE /\ holdings'[s].quantity = q
                        /\ holdings'[s].avg_price = FromInt(p)]_vars
    /\ [](trade_history = C5_TenThenTen =>
            /\ holdings["TCS"].quantity = 20
            /\ holdings["TCS"].avg_price = FromInt(150))

\* 10 shares at 100 and 10 more at 200 were both accepted
C5_Witness ==
    /\ trade_history = C5_TenThenTen
    /\ Returned("execute_buy", TRUE)

\* C6 (Sell): a successful sell of q shares at price p of a position with
\* average cost a adds q*p - q*a to total_pnl and q*p to available_cash, takes
\* q off the position's quantity, leaves avg_price as it was when shares
\* remain, and deletes the position exactly when its quantity reaches 0.
C6_SellEffect ==
    [][Succeeds("execute_sell") =>
        LET o == Latest(trade_history')
            s == o.symbol
            p == o.price[1]
            q == SignedTraded(p)
            a == holdings[s].avg_price
        IN  /\ available_cash' = available_cash + q * p
            /\ total_pnl' = RAdd(total_pnl,
                                 RSub(FromInt(q * p), RMul(FromInt(q), a)))
            /\ (s \in DOMAIN holdings') <=> (holdings[s].quantity - q # 0)
            /\ s \in DOMAIN holdings' =>
                 /\ holdings'[s].quantity = holdings[s].quantity - q
                 /\ holdings'[s].avg_price = a
            /\ \A t \in DOMAIN holdings \ {s} :
                 /\ t \in DOMAIN holdings'
                 /\ holdings'[t].quantity = holdings[t].quantity
                 /\ holdings'[t].avg_price = holdings[t].avg_price]_vars

\* a partial sell at a gain or loss was followed by the sell of the rest,
\* which deleted the position
C6_Witness ==
    /\ Returned("execute_sell", TRUE)
    /\ Len(trade_history) = 3
    /\ trade_history[2].action = "SELL"
    /\ trade_history[2].symbol = trade_history[3].symbol
    /\ trade_history[3].symbol \notin DOMAIN holdings
    /\ total_pnl # FromInt(0)

\* C7 (Full close resets basis): once a sell has closed a symbol's position,
\* the next successful buy of the symbol at price p creates a position with
\* avg_price = p and the bought quantity.
SoldBefore(s) ==
    \E i \in 1..Len(trade_history) :
        trade_history[i].action = "SELL" /\ trade_history[i].symbol = s

C7_FullCloseResetsBasis ==
    [][Succeeds("execute_buy") =>
        LET o == Latest(trade_history')
            s == o.symbol
            p == o.price[1]
        IN  (SoldBefore(s) /\ s \notin DOMAIN holdings) =>
                /\ holdings'[s].avg_price = FromInt(p)
                /\ holdings'[s].quantity * p = available_cash - available_cash'
                /\ holdings'[s].quantity > 0]_vars

\* a symbol bought at one price and sold out was bought again at another
C7_Witness ==
    /\ Returned("execute_buy", TRUE)
    /\ Len(trade_history) = 3
    /\ trade_history[1].action = "BUY"
    /\ trade_history[2].action = "SELL"
    /\ trade_history[1].symbol = trade_history[3].symbol
    /\ trade_history[2].symbol = trade_history[3].symbol
    /\ trade_history[1].price # trade_history[3].price
    /\ holdings[trade_history[3].symbol].avg_price
         = FromInt(trade_history[3].price[1])

\* C8 (End-to-end scenario): from budget 100000, can_buy(RELIANCE, 10, 1500)
\* holds and the buy of 10 at 1500 gives cash 85000 and position {10, 1500};
\* the price update to 1600 gives unrealized_pnl 1000; the sell of 50% at 1600
\* sells 5 shares, books 500, gives cash 93000 and leaves position {5, 1500}.
C8_Buy == Order("BUY", "RELIANCE", QuantityOnly(10), Some(1500))
C8_Sell == Order("SELL", "RELIANCE", PercentageOnly(50), Some(1600))

C8_EndToEnd ==
    initial_budget = 100000 =>
        /\ trade_history = <<>> => can_buy("RELIANCE", 10, 1500) = "OK"
        /\ trade_history = <<C8_Buy>> =>
             /\ available_cash = 85000
             /\ holdings["RELIANCE"].quantity = 10
             /\ holdings["RELIANCE"].avg_price = FromInt(1500)
             /\ holdings["RELIANCE"].current_price = 1600 =>
                  holdings["RELIANCE"].unrealized_pnl = FromInt(1000)
        /\ trade_history = <<C8_Buy, C8_Sell>> =>
             /\ available_cash = 93000
             /\ total_pnl = FromInt(500)
             /\ holdings["RELIANCE"].quantity = 5
             /\ holdings["RELIANCE"].avg_price = FromInt(1500)

\* the scenario has run to its end: bought, repriced at 1600, half sold
C8_Witness ==
    /\ initial_budget = 100000
    /\ trade_history = <<C8_Buy, C8_Sell>>
    /\ Returned("execute_sell", TRUE)
    /\ holdings["RELIANCE"].current_price = 1600
    /\ holdings["RELIANCE"].unrealized_pnl = FromInt(500)

\* C9 (Position bound enforcement): on a fresh ledger of 100000 a buy costing
\* exactly 40000 is rejected as too large, one costing exactly 3000 as too
\* small, and every buy costing between 5000 and 30000 inclusive succeeds.
C9_Expected(cost, reason) ==
    /\ cost = 40000 => reason = "PositionTooLarge"
    /\ cost = 3000 => reason = "PositionTooSmall"
    /\ (5000 <= cost /\ cost <= 30000) => reason = "OK"

C9_PositionBounds ==
    (initial_budget = 100000 /\ trade_history = <<>>) =>
        /\ \A s \in Symbols : \A p \in MarketPrices(s) : \A q \in 1..MaxShares :
             C9_Expected(q * p, can_buy(s, q, p))
        /\ \A o \in PricedOrders("BUY") :
             LET q == BuyQuantity(o, o.price[1])
                 out == execute_buy(o)
             IN  q # None =>
                   /\ C9_Expected(q[1] * o.price[1], out.reason)
                   /\ out.reason = "OK" =>
                        /\ out.ok
                        /\ out.cash = 100000 - q[1] * o.price[1]
                        /\ out.hold[o.symbol].quantity = q[1]

\* a buy costing exactly 30000 was accepted on the fresh ledger of 100000
C9_Witness ==
    /\ initial_budget = 100000
    /\ Len(trade_history) = 1
    /\ Returned("execute_buy", TRUE)
    /\ available_cash = 70000

(***************************************************************************)
(* C10. Threshold gating of the combination.                               *)
(***************************************************************************)
IsBuy(d) == d.decision \in {"STRONG_BUY", "BUY"}
IsSell(d) == d.decision \in {"STRONG_SELL", "SELL"}
BuyMajority(ds) ==
    LET b == Cardinality({i \in 1..Len(ds) : IsBuy(ds[i])})
        s == Cardinality({i \in 1..Len(ds) : IsSell(ds[i])})
    IN  b > s /\ b > Len(ds) - b - s

RECURSIVE SumTenths(_, _, _)
\* ten times the sum of the confidences, a buy taken buyw tenths and a sell
\* sellw tenths of its confidence
SumTenths(ds, buyw, sellw) ==
    IF ds = <<>> THEN 0
    ELSE (IF IsBuy(Head(ds)) THEN buyw ELSE IF IsSell(Head(ds)) THEN sellw ELSE 10)
            * Head(ds).confidence
         + SumTenths(Tail(ds), buyw, sellw)

ThreeBuysAt60(ds) ==
    Len(ds) = 3 /\ \A i \in 1..3 : ds[i].decision = "BUY" /\ ds[i].confidence = 60

\* C10 as stated: three BUY votes at confidence 60 combine to HOLD, and a
\* majority-BUY vote set whose mean confidence is below the buy threshold
\* never produces BUY.
C10_AsStated ==
    final_decision # None =>
        LET d == final_decision[1]
            ds == d.agent_decisions
        IN  /\ ThreeBuysAt60(ds) => d.final_action = "HOLD"
            /\ (/\ BuyMajority(ds)
                /\ SumTenths(ds, 10, 10) < 10 * BUY_CONFIDENCE_THRESHOLD * Len(ds))
               => d.final_action # "BUY"

\* C10 (amended): the gate is on the weighted mean confidence (a buy vote
\* counts 1.2 times, a sell vote 1.1 times its confidence): a majority-BUY
\* vote set produces BUY exactly when that weighted mean reaches the buy
\* threshold of 70 and HOLD otherwise; three BUY votes at confidence 60 have
\* the weighted mean 72 and combine to BUY with confidence 72.
C10_ThresholdGating ==
    final_decision # None =>
        LET d == final_decision[1]
            ds == d.agent_decisions
            below == SumTenths(ds, 12, 11) < 10 * BUY_CONFIDENCE_THRESHOLD * Len(ds)
        IN  /\ BuyMajority(ds) =>
                d.final_action = IF below THEN "HOLD" ELSE "BUY"
            /\ ThreeBuysAt60(ds) =>
                d.final_action = "BUY" /\ d.confidence = FromInt(72)

\* a majority of buys with a vote at 60 or more is held back by the gate
C10_Witness ==
    /\ final_decision # None
    /\ BuyMajority(final_decision[1].agent_decisions)
    /\ \E i \in 1..Len(final_decision[1].agent_decisions) :
          /\ IsBuy(final_decision[1].agent_decisions[i])
          /\ final_decision[1].agent_decisions[i].confidence >= 60
    /\ SumTenths(final_decision[1].agent_decisions, 12, 11)
          < 10 * BUY_CONFIDENCE_THRESHOLD * Len(final_decision[1].agent_decisions)
    /\ final_decision[1].final_action = "HOLD"

(***************************************************************************)
(* C11, C12. The combined decision.                                        *)
(***************************************************************************)
\* C11: combining an empty vote list yields HOLD with confidence 0, risk
\* Medium, and neither a stop loss nor a take profit.
C11_DegenerateCase ==
    (final_decision # None /\ final_decision[1].agent_decisions = <<>>) =>
        LET d == final_decision[1]
        IN  /\ d.final_action = "HOLD"
            /\ d.confidence = FromInt(0)
            /\ d.risk_assessment = "Medium"
            /\ d.stop_loss = None
            /\ d.take_profit = None

\* C12: the confidence of every combined decision lies in 0..100.
C12_ConfidenceRange ==
    final_decision # None =>
        /\ RGe(final_decision[1].confidence, FromInt(0))
        /\ RLe(final_decision[1].confidence, FromInt(100))

(***************************************************************************)
(* C14-C16. How an order's quantity and price are resolved.                *)
(***************************************************************************)
\* the outcome left the ledger as it was
Untouched(out) ==
    /\ out.cash = available_cash
    /\ out.hold = holdings
    /\ out.pnl = total_pnl
    /\ out.history = trade_history

\* C14: a buy or a sell whose quantity resolves to 0 shares fails with
\* MissingQuantity, changes no ledger field and records no trade.
C14_ZeroQuantityFails ==
    /\ \A o \in PricedOrders("BUY") :
          BuyQuantity(o, o.price[1]) = Some(0) =>
             /\ ~execute_buy(o).ok
             /\ Untouched(execute_buy(o))
    /\ \A o \in PricedOrders("SELL") :
          (/\ o.symbol \in DOMAIN holdings
           /\ SellQuantity(o, holdings[o.symbol]) = Some(0)) =>
             /\ ~execute_sell(o).ok
             /\ execute_sell(o).reason = "MissingQuantity"
             /\ Untouched(execute_sell(o))

\* the order with its percentage removed
QuantityAlone(o) == [o EXCEPT !.percentage = None]
HasBoth(o) == Truthy(o.quantity) /\ Truthy(o.percentage)

\* the two outcomes trade the same shares for the same cash
SameTrade(a, b) ==
    /\ a.ok = b.ok
    /\ a.cash = b.cash
    /\ a.hold = b.hold
    /\ a.pnl = b.pnl

\* C15: an order with both a quantity and a percentage trades exactly its
\* quantity, as if the percentage were absent; an order with neither fails
\* and changes nothing.
C15_QuantityWins ==
    /\ \A o \in PricedOrders("BUY") :
          /\ HasBoth(o) => SameTrade(execute_buy(o), execute_buy(QuantityAlone(o)))
          /\ (o.quantity = None /\ o.percentage = None) =>
                ~execute_buy(o).ok /\ Untouched(execute_buy(o))
    /\ \A o \in PricedOrders("SELL") :
          /\ HasBoth(o) => SameTrade(execute_sell(o), execute_sell(QuantityAlone(o)))
          /\ (o.quantity = None /\ o.percentage = None) =>
                ~execute_sell(o).ok /\ Untouched(execute_sell(o))

\* C16: a sell order without a price is executed at the held position's
\* current_price: a quantity within the holding is sold for
\* quantity * current_price.
C16_DefaultsToLastPrice ==
    \A o \in UnpricedOrders("SELL") :
        (/\ o.price = None
         /\ o.symbol \in DOMAIN holdings
         /\ holdings[o.symbol].current_price > 0
         /\ o.quantity[1] <= holdings[o.symbol].quantity) =>
            /\ execute_sell(o).ok
            /\ execute_sell(o).cash =
                  available_cash + o.quantity[1] * holdings[o.symbol].current_price

(***************************************************************************)
(* C17-C20. What the ledger stores and reports.                            *)
(***************************************************************************)
\* C17: every open position's current_price and current_value are > 0, and
\* update_holding_price never returns normally having stored a price <= 0.
C17_PositivePrices ==
    \A s \in DOMAIN holdings :
        holdings[s].current_price > 0 /\ holdings[s].current_value > 0

\* C18: get_portfolio_state reports total_pnl / (initial_budget -
\* available_cash) * 100 when that denominator is > 0 and 0 otherwise.
C18_PnlPercent ==
    LET total_invested == initial_budget - available_cash
    IN  get_portfolio_state.total_pnl_percentage =
            IF total_invested > 0
            THEN RMul(RDiv(total_pnl, FromInt(total_invested)), FromInt(100))
            ELSE FromInt(0)

\* C19: for every open position get_portfolio_state reports current_value =
\* quantity * current_price and unrealized_pnl = current_value - quantity *
\* avg_price.
C19_DerivedValues ==
    \A s \in DOMAIN holdings :
        LET h == get_portfolio_state.holdings[s]
        IN  /\ h.current_value = h.quantity * h.current_price
            /\ h.unrealized_pnl =
                  RSub(FromInt(h.current_value), RMul(FromInt(h.quantity), h.avg_price))

\* C20: right after update_holding_price on a held symbol every open
\* position's percentage_of_portfolio is its current_value / total_value *
\* 100 with the new total value.
C20_PercentagesAfterUpdate ==
    (/\ last.op = "update_holding_price"
     /\ last.reason = "OK"
     /\ get_portfolio_state.total_value > 0) =>
        \A s \in DOMAIN holdings :
            get_portfolio_state.holdings[s].percentage_of_portfolio =
                RMul(Rat(holdings[s].current_value, get_portfolio_state.total_value),
                     FromInt(100))

(***************************************************************************)
(* C13. One turn at a time.                                                *)
(***************************************************************************)
\* C13: while a turn is between its portfolio snapshot and the end of its
\* decision (it waits for the agents), no step of another turn or of a
\* manual action changes the session's ledger.
C13_TurnsSerialized ==
    [][\A c \in Turns :
          (pc[c] = "agents" /\ pc'[c] = "agents") =>
             /\ available_cash' = available_cash
             /\ holdings' = holdings
             /\ trade_history' = trade_history
             /\ total_pnl' = total_pnl]_vars

(***************************************************************************)
(* C21. The sell checks.                                                   *)
(***************************************************************************)
\* the share counts the checks are asked about for symbol s
C21_Asked(s) ==
    Quantities \cup {1}
        \cup (IF s \in DOMAIN holdings
              THEN {holdings[s].quantity, holdings[s].quantity + 1} ELSE {})

C21_Verdict(s, q) ==
    IF s \notin DOMAIN holdings THEN "NoHolding"
    ELSE IF q > holdings[s].quantity THEN "InsufficientShares"
    ELSE "OK"

\* sell orders for a plain share count, at a valid price
C21_Orders ==
    UNION {{Order("SELL", s, [quantity |-> Some(q), percentage |-> None], Some(1500)) :
              q \in C21_Asked(s) \ {0}} : s \in Symbols}

\* C21: can_sell and execute_sell fail with NoHolding for a symbol that is
\* not held and with InsufficientShares for more shares than are held, and
\* succeed for every quantity up to the held one; no sell creates a
\* position or leaves one below 0 shares, and every open position holds
\* more than 0 shares.
C21_SellChecks ==
    /\ \A s \in Symbols : \A q \in C21_Asked(s) : can_sell(s, q) = C21_Verdict(s, q)
    /\ \A o \in C21_Orders :
          LET out == execute_sell(o)
              verdict == C21_Verdict(o.symbol, o.quantity[1])
          IN  /\ out.ok <=> verdict = "OK"
              /\ ~out.ok => out.reason = verdict /\ Untouched(out)
              /\ DOMAIN out.hold \subseteq DOMAIN holdings
              /\ \A s \in DOMAIN out.hold : out.hold[s].quantity > 0
    /\ \A s \in DOMAIN holdings : holdings[s].quantity > 0

\* 2 of 10 held shares have been sold
C21_Witness ==
    /\ last.op = "execute_sell"
    /\ last.ok
    /\ "RELIANCE" \in DOMAIN holdings
    /\ holdings["RELIANCE"].quantity = 8
    /\ Latest(trade_history).quantity = Some(2)

(***************************************************************************)
(* C22. The total value reported by get_portfolio_state.                   *)
(***************************************************************************)
\* C22: the reported total value is the available cash plus the sum of the
\* positions' current values and is never below 0; with no position and no
\* trade it equals the available cash and the initial budget, which the
\* reported state always carries as total_budget.
C22_TotalValue ==
    LET state == get_portfolio_state
    IN  /\ state.total_value =
              state.available_cash
                + SumCurrentValue(state.holdings, DOMAIN state.holdings)
        /\ state.total_value >= 0
        /\ (DOMAIN holdings = {} /\ trade_history = <<>>) =>
              /\ state.total_value = state.available_cash
              /\ state.available_cash = initial_budget
        /\ state.total_budget = initial_budget
        /\ initial_budget \in Budgets

(***************************************************************************)
(* C23. The trade history is append-only.                                  *)
(***************************************************************************)
\* the entries a history held are still its first entries, unmodified
C23_Kept ==
    /\ Len(trade_history') >= Len(trade_history)
    /\ SubSeq(trade_history', 1, Len(trade_history)) = trade_history

\* C23: the trade history grows by exactly one entry on every successful
\* execute_buy or execute_sell that trades shares and is left unchanged by
\* every failed order, by update_holding_price and by get_portfolio_state;
\* no step modifies or removes an entry that is already there.
C23_AppendOnly ==
    [][/\ C23_Kept
       /\ Len(trade_history') <= Len(trade_history) + 1
       /\ (last'.op \in {"update_holding_price", "get_portfolio_state"} \/ ~last'.ok)
             => trade_history' = trade_history
       /\ (/\ last'.op \in {"execute_buy", "execute_sell"}
           /\ last'.ok
           /\ available_cash' # available_cash)
             => /\ Len(trade_history') = Len(trade_history) + 1
                /\ Latest(trade_history').action =
                      (IF last'.op = "execute_buy" THEN "BUY" ELSE "SELL")]_vars

\* a sell has been recorded behind a buy, and a rejected sell has left
\* both entries in place
C23_Witness ==
    /\ Len(trade_history) = 2
    /\ trade_history[1].action = "BUY"
    /\ trade_history[2].action = "SELL"
    /\ last.op = "execute_sell"
    /\ ~last.ok

(***************************************************************************)
(* C24. The vote tally.                                                    *)
(***************************************************************************)
\* the bucket a vote is counted in
C24_Bucket(d) ==
    CASE d.decision \in {"STRONG_BUY", "BUY"} -> "buy"
      [] d.decision \in {"STRONG_SELL", "SELL"} -> "sell"
      [] OTHER -> "hold"

C24_Tally(ds, bucket) ==
    Cardinality({i \in 1..Len(ds) : C24_Bucket(ds[i]) = bucket})

\* bucket has strictly more votes than each of the other two
C24_Wins(ds, bucket) ==
    \A other \in {"buy", "sell", "hold"} \ {bucket} :
        C24_Tally(ds, bucket) > C24_Tally(ds, other)

\* C24: the final action is BUY only when the buy bucket (STRONG_BUY, BUY)
\* has strictly more votes than the sell bucket (STRONG_SELL, SELL) and than
\* the hold bucket (every other vote), SELL only when the sell bucket has
\* strictly more than each of the other two; a tie for the most votes gives
\* HOLD whatever the confidences.
C24_StrictMajority ==
    final_decision # None =>
        LET action == final_decision[1].final_action
        IN  /\ action \in {"BUY", "SELL", "HOLD"}
            /\ action = "BUY" => C24_Wins(agent_decisions, "buy")
            /\ action = "SELL" => C24_Wins(agent_decisions, "sell")
            /\ (~C24_Wins(agent_decisions, "buy") /\ ~C24_Wins(agent_decisions, "sell"))
                  => action = "HOLD"

\* one buy and one sell vote, both fully confident, have been combined
C24_Witness ==
    /\ final_decision # None
    /\ final_decision[1].final_action = "HOLD"
    /\ Len(agent_decisions) = 2
    /\ C24_Tally(agent_decisions, "buy") = 1
    /\ C24_Tally(agent_decisions, "sell") = 1
    /\ \A i \in 1..2 : agent_decisions[i].confidence = 100

(***************************************************************************)
(* C25. The recommended position size.                                     *)
(***************************************************************************)
\* cash and total value of the portfolios the size is recommended for:
\* cash is 10%, 50% and 100% of the total value
C25_Portfolios ==
    {[cash |-> c, total_value |-> 100000] : c \in {10000, 50000, 100000}}

RECURSIVE C25_SumSizes(_, _)
\* sum of the votes' sizes from vote i on, a vote without a size counting 10
C25_SumSizes(ds, i) ==
    IF i > Len(ds) THEN 0
    ELSE (IF ds[i].position_size = None THEN 10 ELSE ds[i].position_size[1])
           + C25_SumSizes(ds, i + 1)

\* clamp(avg * adj, 5, 30), in hundredths of a percent as a rational
C25_Clamped(ds, p) ==
    LET adj == IF p.cash * 100 < 20 * p.total_value THEN 5
               ELSE IF p.cash * 100 > 80 * p.total_value THEN 12
               ELSE 10
        sized == Rat(C25_SumSizes(ds, 1) * adj, Len(ds) * 10)
    IN  IF RLt(sized, FromInt(5)) THEN FromInt(5)
        ELSE IF RGt(sized, FromInt(30)) THEN FromInt(30)
        ELSE sized

\* C25: for every non-empty vote list and every portfolio the recommended
\* size is clamp(avg * adj, 5, 30): avg the mean of the votes' sizes with a
\* missing size counted as 10, adj 0.5 below 20% cash, 1.2 above 80% cash
\* and 1 otherwise, applied before the clamp; so the size lies in [5, 30].
C25_ClampedMean ==
    (final_decision # None /\ agent_decisions # <<>>) =>
        \A p \in C25_Portfolios :
            LET size == calculate_position_size(agent_decisions, p.cash, p.total_value)
            IN  /\ size = C25_Clamped(agent_decisions, p)
                /\ RGe(size, FromInt(5))
                /\ RLe(size, FromInt(30))

(***************************************************************************)
(* C26. A turn whose market data fails.                                    *)
(***************************************************************************)
\* C26: a turn whose analysis could not be fetched updates no price and
\* submits no order: available cash, the positions with their current
\* prices, the realized PnL and the trade history stay as they were, no
\* exception escapes, and the turn yields a HOLD decision with the session
\* still active.
C26_FailedTurnHolds ==
    [][last'.op = "create_error_decision" =>
          /\ available_cash' = available_cash
          /\ holdings' = holdings
          /\ total_pnl' = total_pnl
          /\ trade_history' = trade_history
          /\ session'.trade_history = session.trade_history
          /\ ~last'.raised
          /\ session'.last_decision # None
          /\ session'.last_decision[1].final_action = "HOLD"
          /\ session'.session_active = session.session_active
          /\ \A c \in Turns : pc'[c] = "pricing" => pc[c] = "pricing"]_vars

\* the analysis failed in a turn of a session that holds a position
C26_Witness ==
    /\ last.op = "create_error_decision"
    /\ SessionSymbol \in DOMAIN holdings
    /\ session.session_active
    /\ session.last_decision = Some(create_error_decision)

(***************************************************************************)
(* C27. A manual action with an explicit quantity.                         *)
(***************************************************************************)
\* the shares held of the session's symbol
C27_Held(hold) ==
    IF SessionSymbol \in DOMAIN hold THEN hold[SessionSymbol].quantity ELSE 0

\* C27: a manual BUY or SELL requested with an explicit quantity q and
\* accepted by the ledger trades exactly q shares: the holding grows (BUY)
\* or shrinks (SELL) by q, and the reported execution result carries the
\* quantity q.
C27_ManualQuantity ==
    [][(/\ pc["manual"] = "pricing"
        /\ pc'["manual"] = "idle"
        /\ work["manual"].quantity # None
        /\ Len(trade_history') = Len(trade_history) + 1)
          => LET q == work["manual"].quantity[1]
             IN  /\ C27_Held(holdings') - C27_Held(holdings) =
                       (IF work["manual"].final_action = "BUY" THEN q ELSE -q)
                 /\ Latest(session'.trade_history).quantity = Some(q)]_vars

(***************************************************************************)
(* C28. The session's histories.                                           *)
(***************************************************************************)
\* seq holds no entry twice
C28_NoDuplicates(seq) ==
    \A i, j \in 1..Len(seq) : seq[i] = seq[j] => i = j

\* C28: each turn appends its analysis and its agents' decisions to the
\* session's histories exactly once: the session's analysis history and its
\* decision history hold every analysis and every agent decision of the
\* turns made so far once, in order, without duplicates.
C28_HistoriesOnce ==
    /\ session.analysis_history = agent.analysis_history
    /\ session.decision_history = agent.decision_history
    /\ C28_NoDuplicates(session.analysis_history)

(***************************************************************************)
(* C29. Directional decisions are executed.                                *)
(***************************************************************************)
\* C29: a turn whose votes aggregate to SELL (sell majority, weighted
\* confidence at least 60) submits a sell order in that turn, as a turn
\* whose votes aggregate to BUY submits a buy order: whatever the agents
\* answer to a turn that waits for them, a directional aggregate is decided
\* and taken to execution.
C29_DirectionalExecuted ==
    \A c \in Turns :
        pc[c] = "agents" =>
            \A ds \in AgentOutcomes :
                LET action == FinalAction(ds, weighted_avg_confidence(ds))
                    decision == DecisionOfTurn(work[c], ds)
                IN  action \in {"BUY", "SELL"} =>
                        /\ decision # None
                        /\ decision[1].final_action = action
                        /\ Executes(decision[1])

(***************************************************************************)
(* C30. A closed session.                                                  *)
(***************************************************************************)
\* the step completes a handler of caller c that began on a closed session
C30_CompletesLate(c) ==
    /\ work[c].began_closed
    /\ pc[c] # "idle"
    /\ pc'[c] = "idle"

\* C30: once close_session has returned, no later operation on the session
\* changes the ledger, and the session never becomes active again: a closed
\* session stays closed, and a handler that began after the close completes
\* without a change of cash, positions, realized PnL or trade history.
C30_ClosedIsFinal ==
    [][/\ ~session.session_active => ~session'.session_active
       /\ \A c \in Callers :
             C30_CompletesLate(c) =>
                /\ available_cash' = available_cash
                /\ holdings' = holdings
                /\ total_pnl' = total_pnl
                /\ trade_history' = trade_history]_vars

====
